---- MODULE Spec2Model ----
(***************************************************************************)
(* A model of the numerical core of quantpy: the quadrature rules         *)
(* (trapezoidal, simpson), the parallel reduction they share with the     *)
(* general CEV pricing sum, the bisection root finder, the implied        *)
(* volatility requests built on it, the special functions (factorial,     *)
(* binomial, hyp0F1, incomplete gamma), the distribution functions       *)
(* (moments, gamma and noncentral chi-squared cdf), the finite            *)
(* differences, and the support code: the test suite runner, the logging  *)
(* verbosity, and the string and integer utilities.                       *)
(*                                                                         *)
(* Floating point values are modelled by exact rationals <<num, den>>     *)
(* (den > 0, lowest terms), so that every statement is about exact        *)
(* arithmetic.  One behaviour is one call of one function: Init draws the *)
(* arguments, the actions are the steps of the call.                      *)
(***************************************************************************)
EXTENDS Integers, Sequences, FiniteSets, TLC

VARIABLES
  kind,             \* the function that is called
  pc,               \* position of the calling thread: entry, parallel, loop, done, error
  result,           \* the returned value (None until the call returns)
  err,              \* the error thrown by ERROR (None if none)
  evals,            \* the points at which the callable func has been evaluated
  firstCall,        \* logging.hpp: static bool firstCall of verbosity()
  set_verbosity,    \* logging.hpp: static int set_verbosity of verbosity()
  func,             \* the callable handed to the function
  a, b, n,          \* quadrature arguments (n also the CEV sum bound)
  h,                \* quadrature step
  intSum,           \* shared total of trapezoidal / simpson
  intThreadSum,     \* per thread partial sum
  St, K, disc, isCall, \* CEV arguments (disc stands for exp(-r * tau))
  firstSum, secondSum, \* shared totals of __GeneralCEVPrice
  firstThreadSum, secondThreadSum, \* per thread partial sums
  nthreads,         \* size of the OpenMP team
  owner,            \* loop index -> thread that executes it
  todo,             \* thread -> loop indices it has still to execute
  tpc,              \* position of each thread of the team
  lock,             \* the thread inside the critical section (0 if none)
  reg,              \* the value of the shared total(s) a thread has loaded
  contrib,          \* history: loop index -> number of times it was executed
  merges,           \* history: thread -> number of times it added its partial sum
  start, end,       \* bisection interval
  atol, rtol,       \* bisection tolerances
  mid, func_mid, last_func_mid, \* bisection locals
  iter,             \* history: number of executions of the loop body
  start0, end0,     \* history: the interval the call was made with
  args,             \* the arguments of a call of a special function, a moment
                    \* or an implied volatility
  calls,            \* history: the functions entered during the call, in order
  testStructs,      \* testing.hpp: the tests registered in the TestSuite
  idx,              \* runTests: the loop index i
  countPassed,      \* runTests: the number of tests that passed
  ran               \* history: the tests run, in order (1-based positions)

cvars == <<kind, pc, result, err, evals, firstCall, set_verbosity, func>>
qvars == <<a, b, n, h, intSum, intThreadSum, St, K, disc, isCall, firstSum,
           secondSum, firstThreadSum, secondThreadSum, nthreads, owner, todo, tpc,
           lock, reg, contrib, merges>>
bvars == <<start, end, atol, rtol, mid, func_mid, last_func_mid, iter,
           start0, end0>>
fvars == <<args, calls>>
tvars == <<testStructs, idx, countPassed, ran>>
vars == <<cvars, qvars, bvars, fvars, tvars>>

None == "None"

----------------------------------------------------------------------------
(* Bounds of the model *)

MaxN == 4          \* largest subdivision count / sum bound drawn
MaxWorkers == 2    \* largest OpenMP team drawn
MaxIter == 5       \* largest number of bisection loop iterations explored

----------------------------------------------------------------------------
(* Exact rational arithmetic standing for the template type T *)

RECURSIVE GCD(_, _)
GCD(x, y) == IF y = 0 THEN x ELSE GCD(y, x % y)

IAbs(x) == IF x < 0 THEN -x ELSE x

Norm(p, q) ==
  LET s == IF q < 0 THEN -1 ELSE 1
      g == GCD(IAbs(p), IAbs(q))
  IN  <<(s * p) \div g, (s * q) \div g>>

R(i) == <<i, 1>>
RAdd(x, y) == Norm(x[1] * y[2] + y[1] * x[2], x[2] * y[2])
RSub(x, y) == Norm(x[1] * y[2] - y[1] * x[2], x[2] * y[2])
RMul(x, y) == Norm(x[1] * y[1], x[2] * y[2])
RDiv(x, y) == Norm(x[1] * y[2], x[2] * y[1])
RLt(x, y) == x[1] * y[2] < y[1] * x[2]
RLe(x, y) == x[1] * y[2] <= y[1] * x[2]
RAbs(x) == <<IAbs(x[1]), x[2]>>
RMin(x, y) == IF RLe(x, y) THEN x ELSE y
RMax(x, y) == IF RLe(x, y) THEN y ELSE x
Zero == R(0)

RECURSIVE SumOver(_, _)
\* the sum of the rationals t[i] over the finite set of integers S
SumOver(S, t) ==
  IF S = {} THEN Zero
  ELSE LET i == CHOOSE j \in S : \A k \in S : j <= k
       IN  RAdd(t[i], SumOver(S \ {i}, t))

----------------------------------------------------------------------------
(* logging.hpp *)

BASE_VERBOSITY == 3

\* a verbosity() that takes the level of every call
verbosityEveryCall(v) ==
  IF v < 0 \/ v > 5 THEN <<FALSE, 5>> ELSE <<FALSE, v>>

\* verbosity(_verbosity): the pair <<firstCall', set_verbosity'>> it leaves
verbosity(v) ==
  IF firstCall
  THEN IF v < 0 \/ v > 5 THEN <<FALSE, 5>> ELSE <<FALSE, v>>
  ELSE <<firstCall, set_verbosity>>

----------------------------------------------------------------------------
(* The callables handed to the quadrature rules *)

Integrands == {"one", "ident", "poly"}

\* the pricers an implied volatility is requested from, as functions of the
\* volatility alone (the other arguments are captured by the lambda): two
\* strictly increasing ones, a strictly decreasing one and a decreasing one
\* that saturates
Pricers == {"vega", "convex", "inverse", "capped"}

IncreasingPricers == {"vega", "convex"}

\* price(St, tau, r, K, vol, isCall) for the captured St, tau, r, K, isCall
price(m, vol) ==
  CASE m = "vega"    -> RMul(R(2), vol)
    [] m = "convex"  -> RMul(vol, vol)
    [] m = "inverse" -> RSub(R(6), RMul(R(2), vol))
    [] m = "capped"  -> RMax(RSub(R(6), RMul(R(2), vol)), R(2))

\* func(x) for a callable
Apply(f, x) ==
  CASE f = "one"   -> R(1)
    [] f = "ident" -> x
    [] f = "poly"  -> RSub(RAdd(RMul(R(3), RMul(x, x)), x), R(3))
    [] f = "lin"   -> RSub(RMul(R(2), x), R(5))
    [] f = "shift" -> RSub(x, R(1))
    [] f = "clamp" -> RMin(RSub(x, R(1)), R(1))
    [] f = "square" -> RSub(RMul(x, x), R(2))
    [] f = "step1" -> IF RLt(x, R(1)) THEN R(-1) ELSE R(1)
    [] f = "step2" -> IF RLt(x, R(2)) THEN R(-1) ELSE R(1)
    [] f = "neg"   -> RSub(Zero, x)
    [] f = "targetFunc" -> RSub(args.Vt, price(args.model, x))
    [] f = "polynomial" ->
         RAdd(R(args.coef[1]), RMul(x,
           RAdd(R(args.coef[2]), RMul(x,
             RAdd(R(args.coef[3]), RMul(x, R(args.coef[4])))))))
    [] OTHER       -> Zero

\* the target functions handed to bisectionMethod: increasing ones (linear,
\* saturating, quadratic, steps), a decreasing one and a constant one
Targets == {"lin", "shift", "clamp", "square", "step1", "step2", "neg", "one"}

\* the summands of the two CEV sums (gamma::pdf * __complimentaryGammaDist),
\* opaque functions of the loop index
CEVTerms == {"unit", "geom"}

firstTerm(f, i) == IF f = "geom" THEN <<1, 2 ^ (i + 1)>> ELSE R(1)

secondTerm(f, i) == IF f = "geom" THEN <<1, 3 ^ (i + 1)>> ELSE R(1)

----------------------------------------------------------------------------
(* ERROR(...): _errorMsg throws std::runtime_error, the DomainError of the *)
(* error taxonomy; the call unwinds without a value                        *)

Throw ==
  /\ pc' = "error"
  /\ err' = "DomainError"
  /\ result' = None

----------------------------------------------------------------------------
(* trapezoidal.hpp, simpson.hpp, GeneralCEV.hpp: the calls *)

\* a + i * h
Point(i) == RAdd(R(a), RMul(R(i), h))

\* the index range of the omp for loop: for (int i = 1; i < n - 1; i++)
QuadLoopRange(m) == {i \in 1..(m - 1) : i < m - 1}

\* the index range of the CEV loop: for (int i = 0; i < n; i++)
CEVLoopRange(m) == {i \in 0..m : i < m}

LoopRange == IF kind = "GeneralCEVPrice" THEN CEVLoopRange(n) ELSE QuadLoopRange(n)

\* the weight simpson gives an interior index
SimpsonWeight(i) == IF i % 2 = 0 THEN <<2, 3>> ELSE RMul(R(2), <<2, 3>>)

\* what one loop iteration adds to the thread's partial sums <<first, second>>
LoopTerm(i) ==
  CASE kind = "trapezoidal" -> <<Apply(func, Point(i)), Zero>>
    [] kind = "simpson"     -> <<RMul(SimpsonWeight(i), Apply(func, Point(i))), Zero>>
    [] OTHER                -> <<firstTerm(func, i), secondTerm(func, i)>>

\* a broken work sharing: every thread of the team runs the whole loop
ShareAll(ow, range, w) == range

\* #pragma omp for: the indices of the loop that thread w executes
Share(ow, range, w) == {i \in range : ow[i] = w}

\* #pragma omp parallel: a team of nt threads starts, the omp for assigns
\* every loop index to one thread of the team
Fork(range) ==
  \E nt \in 1..MaxWorkers :
    \E ow \in [range -> 1..nt] :
      /\ nthreads' = nt
      /\ owner' = ow
      /\ todo' = [w \in 1..nt |-> Share(ow, range, w)]
      /\ tpc' = [w \in 1..nt |-> "loop"]
      /\ intThreadSum' = [w \in 1..nt |-> Zero]
      /\ firstThreadSum' = [w \in 1..nt |-> Zero]
      /\ secondThreadSum' = [w \in 1..nt |-> Zero]
      /\ reg' = [w \in 1..nt |-> <<Zero, Zero>>]
      /\ contrib' = [i \in range |-> 0]
      /\ merges' = [w \in 1..nt |-> 0]
      /\ lock' = 0

NoFork == UNCHANGED <<nthreads, owner, todo, tpc, intThreadSum, firstThreadSum,
                      secondThreadSum, reg, contrib, merges, lock>>

\* a bounds check that lets an empty interval through
QuadBoundsBadStrict == a > b

\* the argument checks of trapezoidal and simpson
QuadBoundsBad == a >= b
QuadCountBad == n < 1

trapezoidalCall ==
  /\ pc = "entry" /\ kind = "trapezoidal"
  /\ IF QuadBoundsBad \/ QuadCountBad
     THEN /\ Throw
          /\ NoFork
          /\ UNCHANGED <<evals, h, intSum>>
     ELSE /\ intSum' = RAdd(RMul(<<1, 2>>, Apply(func, R(a))),
                            RMul(<<1, 2>>, Apply(func, R(b))))
          /\ evals' = evals \cup {R(a), R(b)}
          /\ h' = RDiv(RSub(R(b), R(a)), R(n))
          /\ Fork(QuadLoopRange(n))
          /\ pc' = "parallel"
          /\ UNCHANGED <<result, err>>
  /\ UNCHANGED <<kind, func, firstCall, set_verbosity, a, b, n, St, K, disc,
                 isCall, firstSum, secondSum>>
  /\ UNCHANGED bvars
  /\ UNCHANGED fvars
  /\ UNCHANGED tvars

simpsonCall ==
  /\ pc = "entry" /\ kind = "simpson"
  /\ IF QuadBoundsBad \/ QuadCountBad
     THEN /\ Throw
          /\ NoFork
          /\ UNCHANGED <<evals, h, intSum>>
     ELSE /\ intSum' = RMul(RDiv(R(1), R(3)),
                            RAdd(Apply(func, R(a)), Apply(func, R(b))))
          /\ evals' = evals \cup {R(a), R(b)}
          /\ h' = RDiv(RSub(R(b), R(a)), R(n))
          /\ Fork(QuadLoopRange(n))
          /\ pc' = "parallel"
          /\ UNCHANGED <<result, err>>
  /\ UNCHANGED <<kind, func, firstCall, set_verbosity, a, b, n, St, K, disc,
                 isCall, firstSum, secondSum>>
  /\ UNCHANGED bvars
  /\ UNCHANGED fvars
  /\ UNCHANGED tvars

GeneralCEVPriceCall ==
  /\ pc = "entry" /\ kind = "GeneralCEVPrice"
  /\ IF n < 1
     THEN /\ Throw
          /\ NoFork
          /\ UNCHANGED <<firstCall, set_verbosity, firstSum, secondSum>>
     ELSE \* DEBUG("k = ", ...) asks verbosity() for the level
          /\ firstCall' = verbosity(BASE_VERBOSITY)[1]
          /\ set_verbosity' = verbosity(BASE_VERBOSITY)[2]
          /\ firstSum' = Zero
          /\ secondSum' = Zero
          /\ Fork(CEVLoopRange(n))
          /\ pc' = "parallel"
          /\ UNCHANGED <<result, err>>
  /\ UNCHANGED <<kind, func, evals, a, b, n, h, intSum, St, K, disc, isCall>>
  /\ UNCHANGED bvars
  /\ UNCHANGED fvars
  /\ UNCHANGED tvars

----------------------------------------------------------------------------
(* The parallel region: omp for nowait, then omp critical *)

Team == IF pc = "parallel" THEN 1..nthreads ELSE {}

\* one iteration of the omp for loop, by the thread that owns the index
LoopIter(w) ==
  /\ pc = "parallel" /\ tpc[w] = "loop" /\ todo[w] # {}
  /\ LET i == CHOOSE j \in todo[w] : \A k \in todo[w] : j <= k
         t == LoopTerm(i)
     IN  /\ todo' = [todo EXCEPT ![w] = @ \ {i}]
         /\ contrib' = [contrib EXCEPT ![i] = @ + 1]
         /\ IF kind = "GeneralCEVPrice"
            THEN /\ firstThreadSum' = [firstThreadSum EXCEPT ![w] = RAdd(@, t[1])]
                 /\ secondThreadSum' = [secondThreadSum EXCEPT ![w] = RAdd(@, t[2])]
                 /\ UNCHANGED <<intThreadSum, evals>>
            ELSE /\ intThreadSum' = [intThreadSum EXCEPT ![w] = RAdd(@, t[1])]
                 /\ evals' = evals \cup {Point(i)}
                 /\ UNCHANGED <<firstThreadSum, secondThreadSum>>
  /\ UNCHANGED <<kind, pc, result, err, firstCall, set_verbosity, func>>
  /\ UNCHANGED <<a, b, n, h, intSum, St, K, disc, isCall, firstSum, secondSum,
                 nthreads, owner, tpc, lock, reg, merges>>
  /\ UNCHANGED bvars
  /\ UNCHANGED fvars
  /\ UNCHANGED tvars

\* nowait: a thread whose share of the loop is done goes on to the critical
\* section without waiting for the rest of the team
LoopDone(w) ==
  /\ pc = "parallel" /\ tpc[w] = "loop" /\ todo[w] = {}
  /\ tpc' = [tpc EXCEPT ![w] = "critical"]
  /\ UNCHANGED cvars
  /\ UNCHANGED <<a, b, n, h, intSum, intThreadSum, St, K, disc, isCall, firstSum,
                 secondSum, firstThreadSum, secondThreadSum, nthreads, owner,
                 todo, lock, reg, contrib, merges>>
  /\ UNCHANGED bvars
  /\ UNCHANGED fvars
  /\ UNCHANGED tvars

\* a critical section that excludes nobody
CriticalOpen == TRUE

\* #pragma omp critical lets a thread in when no thread is inside
CriticalFree == lock = 0

\* the thread enters the critical section and loads the shared total(s)
CriticalEnter(w) ==
  /\ pc = "parallel" /\ tpc[w] = "critical"
  /\ CriticalFree
  /\ lock' = w
  /\ reg' = [reg EXCEPT ![w] = IF kind = "GeneralCEVPrice"
                               THEN <<firstSum, secondSum>>
                               ELSE <<intSum, Zero>>]
  /\ tpc' = [tpc EXCEPT ![w] = "inside"]
  /\ UNCHANGED cvars
  /\ UNCHANGED <<a, b, n, h, intSum, intThreadSum, St, K, disc, isCall, firstSum,
                 secondSum, firstThreadSum, secondThreadSum, nthreads, owner,
                 todo, contrib, merges>>
  /\ UNCHANGED bvars
  /\ UNCHANGED fvars
  /\ UNCHANGED tvars

\* the thread stores total + partial sum and leaves the critical section
CriticalExit(w) ==
  /\ pc = "parallel" /\ tpc[w] = "inside"
  /\ IF kind = "GeneralCEVPrice"
     THEN /\ firstSum' = RAdd(reg[w][1], firstThreadSum[w])
          /\ secondSum' = RAdd(reg[w][2], secondThreadSum[w])
          /\ UNCHANGED intSum
     ELSE /\ intSum' = RAdd(reg[w][1], intThreadSum[w])
          /\ UNCHANGED <<firstSum, secondSum>>
  /\ merges' = [merges EXCEPT ![w] = @ + 1]
  /\ lock' = IF lock = w THEN 0 ELSE lock
  /\ tpc' = [tpc EXCEPT ![w] = "fin"]
  /\ UNCHANGED cvars
  /\ UNCHANGED <<a, b, n, h, intThreadSum, St, K, disc, isCall, firstThreadSum,
                 secondThreadSum, nthreads, owner, todo, reg, contrib>>
  /\ UNCHANGED bvars
  /\ UNCHANGED fvars
  /\ UNCHANGED tvars

\* the price __GeneralCEVPrice forms from the two sums
CEVPrice(fs, ss) ==
  LET callPrice == RSub(RMul(R(St), fs), RMul(RMul(R(K), disc), ss))
  IN  IF isCall THEN callPrice
      ELSE RAdd(RSub(callPrice, R(St)), RMul(R(K), disc))

\* the implicit barrier at the end of the parallel region, then the return
Return ==
  /\ pc = "parallel"
  /\ \A w \in 1..nthreads : tpc[w] = "fin"
  /\ result' = IF kind = "GeneralCEVPrice"
               THEN CEVPrice(firstSum, secondSum)
               ELSE RMul(h, intSum)
  /\ pc' = "done"
  /\ UNCHANGED <<kind, err, evals, firstCall, set_verbosity, func>>
  /\ UNCHANGED qvars
  /\ UNCHANGED bvars
  /\ UNCHANGED fvars
  /\ UNCHANGED tvars

----------------------------------------------------------------------------
(* The quadrature / parallel reduction specification *)

\* inputs that play no part in a call
IdleBisect ==
  /\ start = Zero /\ end = Zero /\ atol = Zero /\ rtol = Zero
  /\ mid = None /\ func_mid = None /\ last_func_mid = None
  /\ iter = 0 /\ start0 = Zero /\ end0 = Zero

IdleCall == args = <<>> /\ calls = <<>>

IdleTests == testStructs = <<>> /\ idx = 0 /\ countPassed = 0 /\ ran = <<>>

IdleTeam ==
  /\ nthreads = 0 /\ owner = <<>> /\ todo = <<>> /\ tpc = <<>>
  /\ intThreadSum = <<>> /\ firstThreadSum = <<>> /\ secondThreadSum = <<>>
  /\ reg = <<>> /\ contrib = <<>> /\ merges = <<>> /\ lock = 0

InitCommon ==
  /\ pc = "entry" /\ result = None /\ err = None /\ evals = {}
  /\ firstCall = TRUE /\ set_verbosity = BASE_VERBOSITY

QuadBounds == {<<0, 2>>, <<1, 2>>, <<1, 1>>, <<2, 1>>}

InitQuad ==
  /\ InitCommon
  /\ IdleBisect
  /\ IdleTeam
  /\ IdleCall
  /\ IdleTests
  /\ h = Zero /\ intSum = Zero /\ firstSum = Zero /\ secondSum = Zero
  /\ n \in -1..MaxN
  /\ \/ /\ kind \in {"trapezoidal", "simpson"}
        /\ func \in Integrands
        /\ \E ab \in QuadBounds : a = ab[1] /\ b = ab[2]
        /\ St = 0 /\ K = 0 /\ disc = Zero /\ isCall = TRUE
     \/ /\ kind = "GeneralCEVPrice"
        /\ func \in CEVTerms
        /\ a = 0 /\ b = 0
        /\ St = 3 /\ K = 2 /\ disc = <<1, 2>> /\ isCall \in BOOLEAN

NextQuad ==
  \/ trapezoidalCall
  \/ simpsonCall
  \/ GeneralCEVPriceCall
  \/ \E w \in Team : LoopIter(w)
  \/ \E w \in Team : LoopDone(w)
  \/ \E w \in Team : CriticalEnter(w)
  \/ \E w \in Team : CriticalExit(w)
  \/ Return

SpecQuad == InitQuad /\ [][NextQuad]_vars

----------------------------------------------------------------------------
(* Claims about the quadrature rules and the parallel reduction *)

IsQuad == kind \in {"trapezoidal", "simpson"}

\* f(a + i * (b - a) / n), with the step of the rule
Sample(i) == Apply(func, RAdd(R(a), RMul(R(i), RDiv(R(b - a), R(n)))))

\* C1: trapezoidal returns h * (f(a)/2 + f(b)/2 + the sum of f(a + i*h) over
\* every interior index i = 1..n-1), h = (b - a)/n
C1_TrapezoidalRule ==
  (pc = "done" /\ kind = "trapezoidal") =>
    result = RMul(RDiv(R(b - a), R(n)),
                  RAdd(RAdd(RMul(<<1, 2>>, Sample(0)), RMul(<<1, 2>>, Sample(n))),
                       SumOver(1..(n - 1), [i \in 1..(n - 1) |-> Sample(i)])))

\* C2: simpson returns h * (f(a)/3 + f(b)/3 + the sum over every interior
\* index i = 1..n-1 of w_i * f(a + i*h)), w_i = 4/3 for odd i, 2/3 for even i
C2_SimpsonRule ==
  (pc = "done" /\ kind = "simpson") =>
    result = RMul(RDiv(R(b - a), R(n)),
                  RAdd(RAdd(RMul(<<1, 3>>, Sample(0)), RMul(<<1, 3>>, Sample(n))),
                       SumOver(1..(n - 1),
                               [i \in 1..(n - 1) |->
                                  RMul(IF i % 2 = 1 THEN <<4, 3>> ELSE <<2, 3>>,
                                       Sample(i))])))

\* the sums a single thread running the whole loop accumulates
SeqFirst == SumOver(LoopRange, [i \in LoopRange |-> LoopTerm(i)[1]])
SeqSecond == SumOver(LoopRange, [i \in LoopRange |-> LoopTerm(i)[2]])

\* what the call returns when one thread runs the whole loop
SeqResult ==
  CASE kind = "trapezoidal" ->
         RMul(h, RAdd(RAdd(RMul(<<1, 2>>, Apply(func, R(a))),
                           RMul(<<1, 2>>, Apply(func, R(b)))), SeqFirst))
    [] kind = "simpson" ->
         RMul(h, RAdd(RMul(<<1, 3>>, RAdd(Apply(func, R(a)), Apply(func, R(b)))),
                      SeqFirst))
    [] OTHER -> CEVPrice(SeqFirst, SeqSecond)

\* the indices thread w has executed
Executed(w) == {i \in DOMAIN owner : owner[i] = w} \ todo[w]

\* C3: whatever the team size, the partition and the order of the critical
\* sections, every loop index is executed exactly once, by one thread; every
\* thread adds its partial sum to the total exactly once; the returned total
\* is the single threaded sum
C3_ReductionExact ==
  /\ pc \in {"parallel", "done"} =>
       /\ DOMAIN contrib = LoopRange
       /\ \A i \in LoopRange :
            contrib[i] = Cardinality({w \in 1..nthreads : i \in Executed(w)})
       /\ \A i \in LoopRange : contrib[i] <= 1
       /\ \A w \in 1..nthreads :
            /\ merges[w] <= 1
            /\ intThreadSum[w] =
                 (IF IsQuad THEN SumOver(Executed(w), [i \in Executed(w) |-> LoopTerm(i)[1]])
                  ELSE Zero)
            /\ firstThreadSum[w] =
                 (IF IsQuad THEN Zero
                  ELSE SumOver(Executed(w), [i \in Executed(w) |-> LoopTerm(i)[1]]))
            /\ secondThreadSum[w] =
                 (IF IsQuad THEN Zero
                  ELSE SumOver(Executed(w), [i \in Executed(w) |-> LoopTerm(i)[2]]))
  /\ pc = "done" =>
       /\ \A i \in LoopRange : contrib[i] = 1
       /\ \A w \in 1..nthreads : merges[w] = 1
       /\ result = SeqResult

\* a call has returned whose loop was shared by two threads
C3_Witness ==
  /\ pc = "done" /\ nthreads >= 2
  /\ \E i, j \in LoopRange : owner[i] = 1 /\ owner[j] = 2

InCritical(w) == tpc[w] = "inside"

MutualExclusion ==
  \A w, v \in Team : (InCritical(w) /\ InCritical(v)) => w = v

\* C4 as stated: the partial sums are merged under mutual exclusion and only
\* after all threads have finished their share of the loop
C4_MergeAfterAllFinish ==
  /\ MutualExclusion
  /\ \A w, v \in Team : InCritical(w) => tpc[v] # "loop"

\* C4 as amended: the partial sums are merged under mutual exclusion, a thread
\* merges only after it has finished its own share of the loop, and the total
\* is returned only after every thread has merged
C4_MergeAfterOwnShare ==
  /\ MutualExclusion
  /\ \A w \in Team : tpc[w] \in {"critical", "inside", "fin"} => todo[w] = {}
  /\ \A w \in Team : merges[w] = (IF tpc[w] = "fin" THEN 1 ELSE 0)
  /\ pc = "done" => \A w \in 1..nthreads : tpc[w] = "fin" /\ merges[w] = 1

\* a thread is inside the critical section while another one waits to enter
C4_Witness ==
  \E w, v \in Team : InCritical(w) /\ tpc[v] = "critical" /\ lock = w

\* C5: trapezoidal and simpson fail with a DomainError whenever a >= b or
\* n < 1, before func is evaluated and before the parallel region starts, and
\* return nothing
C5_DomainErrorAtEntry ==
  (IsQuad /\ pc # "entry" /\ (a >= b \/ n < 1)) =>
    /\ pc = "error" /\ err = "DomainError" /\ result = None
    /\ evals = {}
    /\ nthreads = 0 /\ tpc = <<>>

\* a quadrature call with an empty or reversed interval has failed
C5_Witness == IsQuad /\ pc = "error" /\ a >= b /\ n >= 1

----------------------------------------------------------------------------
(* rootFinding.hpp: bisectionMethod.  abs is read as the absolute value of *)
(* T; x / 0 is infinite for x # 0 and 0 / 0 compares false, as for the     *)
(* floating point types the template is used with                          *)

\* the order check that lets equal end values through
FuncOrderBadStrict(fs, fe) == RLt(fe, fs)

\* if ( func(start) >= func(end) )
FuncOrderBad(fs, fe) == RLe(fe, fs)

\* a zero test that never succeeds
MidIsRootNever(fm) == FALSE

\* if ( func_mid == (T)0.0 )
MidIsRoot(fm) == fm = Zero

\* abs(func_mid - last_func_mid) > atol
AbsExceeds(fm, lfm) == RLt(atol, RAbs(RSub(fm, lfm)))

\* abs((func_mid - last_func_mid) / func_mid) > rtol
RelExceeds(fm, lfm) ==
  IF fm = Zero THEN RSub(fm, lfm) # Zero
  ELSE RLt(rtol, RAbs(RDiv(RSub(fm, lfm), fm)))

\* a loop condition that goes on while either test exceeds
LoopCondEither(fm, lfm) == AbsExceeds(fm, lfm) \/ RelExceeds(fm, lfm)

\* the condition of the while loop: (... > atol) & (... > rtol)
LoopCond(fm, lfm) == AbsExceeds(fm, lfm) /\ RelExceeds(fm, lfm)

Midpoint(s, e) == RDiv(RAdd(e, s), R(2))

bisectionMethodCall ==
  /\ pc = "entry" /\ kind = "bisectionMethod"
  /\ IF RLe(end, start)
     THEN /\ Throw
          /\ UNCHANGED <<evals, mid, func_mid, last_func_mid>>
     ELSE IF FuncOrderBad(Apply(func, start), Apply(func, end))
     THEN /\ Throw
          /\ evals' = evals \cup {start, end}
          /\ UNCHANGED <<mid, func_mid, last_func_mid>>
     ELSE LET m == Midpoint(start, end)
              fm == Apply(func, m)
          IN  /\ mid' = m
              /\ func_mid' = fm
              /\ evals' = evals \cup {start, end, m}
              /\ err' = err
              /\ IF MidIsRoot(fm)
                 THEN /\ result' = m
                      /\ pc' = "done"
                      /\ UNCHANGED last_func_mid
                 ELSE /\ last_func_mid' = Apply(func, end)
                      /\ pc' = "loop"
                      /\ UNCHANGED result
  /\ UNCHANGED <<kind, firstCall, set_verbosity, func>>
  /\ UNCHANGED <<start, end, atol, rtol, iter, start0, end0>>
  /\ UNCHANGED qvars
  /\ UNCHANGED fvars
  /\ UNCHANGED tvars

\* one execution of the body of the while loop
LoopStep ==
  /\ pc = "loop" /\ kind = "bisectionMethod"
  /\ LoopCond(func_mid, last_func_mid)
  /\ iter < MaxIter
  /\ last_func_mid' = func_mid
  /\ LET neg == RLt(RMul(func_mid, Apply(func, start)), Zero)
         e == IF neg THEN mid ELSE end
         s == IF neg THEN start ELSE mid
     IN  /\ end' = e
         /\ start' = s
         /\ mid' = Midpoint(s, e)
         /\ func_mid' = Apply(func, Midpoint(s, e))
         /\ evals' = evals \cup {start, Midpoint(s, e)}
  /\ iter' = iter + 1
  /\ UNCHANGED <<kind, pc, result, err, firstCall, set_verbosity, func>>
  /\ UNCHANGED <<atol, rtol, start0, end0>>
  /\ UNCHANGED qvars
  /\ UNCHANGED fvars
  /\ UNCHANGED tvars

\* the loop condition fails: return mid
LoopExit ==
  /\ pc = "loop" /\ kind = "bisectionMethod"
  /\ ~LoopCond(func_mid, last_func_mid)
  /\ result' = mid
  /\ pc' = "done"
  /\ UNCHANGED <<kind, err, evals, firstCall, set_verbosity, func>>
  /\ UNCHANGED bvars
  /\ UNCHANGED qvars
  /\ UNCHANGED fvars
  /\ UNCHANGED tvars

----------------------------------------------------------------------------
(* The bisection specification *)

IdleQuad ==
  /\ a = 0 /\ b = 0 /\ n = 0 /\ h = Zero /\ intSum = Zero
  /\ St = 0 /\ K = 0 /\ disc = Zero /\ isCall = TRUE
  /\ firstSum = Zero /\ secondSum = Zero

Intervals == {<<0, 5>>, <<0, 4>>, <<0, 3>>, <<0, 2>>, <<2, 2>>, <<3, 1>>}

Tols == {<<1, 2>>, <<1, 8>>}

InitBisect ==
  /\ InitCommon
  /\ IdleQuad
  /\ IdleTeam
  /\ IdleCall
  /\ IdleTests
  /\ kind = "bisectionMethod"
  /\ func \in Targets
  /\ \E se \in Intervals : /\ start = R(se[1]) /\ end = R(se[2])
                           /\ start0 = R(se[1]) /\ end0 = R(se[2])
  /\ atol \in Tols /\ rtol \in Tols
  /\ mid = None /\ func_mid = None /\ last_func_mid = None
  /\ iter = 0

NextBisect ==
  \/ bisectionMethodCall
  \/ LoopStep
  \/ LoopExit

SpecBisect == InitBisect /\ [][NextBisect]_vars

----------------------------------------------------------------------------
(* Claims about bisectionMethod *)

IsBisect == kind = "bisectionMethod"

\* the increasing targets with an exact root, and that root
Root(f) == CASE f = "lin" -> <<5, 2>> [] f = "shift" -> R(1) [] f = "clamp" -> R(1)
             [] OTHER -> None

\* f is increasing, f(start) < f(end) and a root lies in (start, end)
RootInside ==
  /\ func \in {"lin", "shift", "clamp"}
  /\ RLt(start0, Root(func)) /\ RLt(Root(func), end0)
  /\ RLt(Apply(func, start0), Apply(func, end0))

\* the preconditions of bisectionMethod hold for the call
PreOK == RLt(start0, end0) /\ RLt(Apply(func, start0), Apply(func, end0))

\* C6: for an increasing f with f(start) < f(end) and a root in (start, end)
\* bisectionMethod returns a point of the initial interval whose function
\* value is within atol of zero
C6_ReturnsRoot ==
  (IsBisect /\ pc = "done" /\ RootInside) =>
    /\ RLe(start0, result) /\ RLe(result, end0)
    /\ RLe(RAbs(Apply(func, result)), atol)

\* the loop was reached and has exited
LoopExited == IsBisect /\ pc = "done" /\ last_func_mid # None

\* |f(mid) - f(prev_mid)| <= atol
AbsWithin == RLe(RAbs(RSub(func_mid, last_func_mid)), atol)

\* |(f(mid) - f(prev_mid)) / f(mid)| <= rtol
RelWithin ==
  /\ func_mid # Zero
  /\ RLe(RAbs(RDiv(RSub(func_mid, last_func_mid), func_mid)), rtol)

\* C7 as stated: wherever the loop has exited both the absolute and the
\* relative test hold
C7_StopsOnlyWhenBoth == LoopExited => (AbsWithin /\ RelWithin)

\* C7 as amended: the loop goes on only while both tests fail; it exits only
\* when at least one of the two tests holds, and whenever one of them holds it
\* exits at once
C7_StopsWhenEither ==
  [][(IsBisect /\ pc = "loop") =>
       /\ (pc' = "done") => (AbsWithin \/ RelWithin)
       /\ (AbsWithin \/ RelWithin) => (pc' = "done" /\ result' = mid)]_vars

\* the loop has run and has exited with the absolute test met, the relative not
C7_Witness == LoopExited /\ iter >= 1 /\ AbsWithin /\ ~RelWithin

\* C8: bisectionMethod fails with a DomainError when start >= end and when
\* f(start) >= f(end), before any midpoint is computed, and returns nothing
C8_DomainErrors ==
  (IsBisect /\ pc # "entry" /\ ~PreOK) =>
    /\ pc = "error" /\ err = "DomainError" /\ result = None
    /\ mid = None /\ func_mid = None /\ iter = 0
    /\ RLe(end0, start0) => evals = {}

\* a call with start < end and f(start) >= f(end) has failed
C8_Witness ==
  /\ IsBisect /\ pc = "error" /\ RLt(start0, end0)
  /\ RLe(Apply(func, end0), Apply(func, start0))

\* C9: for the increasing step function whose jump lies at 1/3 of the
\* interval the loop never terminates and no error is reported
C9_StepNeverReturns ==
  (IsBisect /\ func = "step1" /\ start0 = R(0) /\ end0 = R(3)) =>
    (pc # "done" /\ err = None)

\* C10: when the preconditions hold and f((start + end)/2) = 0, the call
\* returns that midpoint at once, whatever atol and rtol, without entering the
\* loop
C10_ExactMidpoint ==
  (IsBisect /\ pc # "entry" /\ PreOK
     /\ Apply(func, RDiv(RAdd(start0, end0), R(2))) = Zero) =>
    /\ pc = "done" /\ result = RDiv(RAdd(start0, end0), R(2))
    /\ iter = 0 /\ last_func_mid = None
    /\ start = start0 /\ end = end0

\* 2x - 5 on [0, 5] has returned 5/2
C10_Witness ==
  /\ IsBisect /\ pc = "done" /\ func = "lin" /\ start0 = R(0) /\ end0 = R(5)
  /\ result = <<5, 2>>

\* the targets that are increasing on the intervals drawn
IncreasingTargets == {"lin", "shift", "clamp", "square", "step1", "step2"}

\* f is increasing and f(start) < 0 < f(end) for the call
SignChange ==
  /\ func \in IncreasingTargets
  /\ RLt(start0, end0)
  /\ RLt(Apply(func, start0), Zero) /\ RLt(Zero, Apply(func, end0))

\* C29: for an increasing f with f(start) < 0 < f(end) every iteration of the
\* loop replaces exactly one endpoint by the previous midpoint, the one on the
\* same side of zero as f(mid); afterwards start < end, start has not
\* decreased, end has not increased, the width has halved,
\* f(start) <= 0 <= f(end) and the root lies in [start, end]
C29_LoopInvariants ==
  [][(IsBisect /\ pc = "loop" /\ SignChange /\ iter' = iter + 1) =>
       /\ \/ start' = mid /\ end' = end
          \/ end' = mid /\ start' = start
       /\ RLt(func_mid, Zero) => start' = mid
       /\ RLt(Zero, func_mid) => end' = mid
       /\ RLt(start', end')
       /\ RLe(start, start') /\ RLe(end', end)
       /\ RSub(end', start') = RDiv(RSub(end, start), R(2))
       /\ RLe(Apply(func, start'), Zero) /\ RLe(Zero, Apply(func, end'))
       /\ Root(func) # None =>
            RLe(start', Root(func)) /\ RLe(Root(func), end')]_vars

----------------------------------------------------------------------------
(* BlackScholes.hpp, AbsoluteCEV.hpp, GeneralCEV.hpp: the implied          *)
(* volatility requests.  Each wraps the pricer in the lambda               *)
(*   targetFunc(vol) = Vt - price(..., vol, ...)                           *)
(* and returns bisectionMethod(targetFunc, lowerBound, upperBound), a tail *)
(* call: control passes to the entry of bisectionMethod                    *)

ImpliedVols ==
  {"BlackScholes::impliedVol", "__AbsoluteCEVImpliedVol", "__GeneralCEVImpliedVol"}

\* T atol = 1e-6, T rtol = 1e-6: the tolerances bisectionMethod defaults to
DefaultTol == <<1, 1000000>>

\* return bisectionMethod<T>(targetFunc, lowerBound, upperBound)
HandToBisection ==
  /\ func' = "targetFunc"
  /\ start' = args.lowerBound /\ end' = args.upperBound
  /\ start0' = args.lowerBound /\ end0' = args.upperBound
  /\ atol' = DefaultTol /\ rtol' = DefaultTol
  /\ kind' = "bisectionMethod"
  /\ calls' = Append(calls, "bisectionMethod")
  /\ UNCHANGED <<pc, result, err, evals, firstCall, set_verbosity>>
  /\ UNCHANGED <<mid, func_mid, last_func_mid, iter, args>>
  /\ UNCHANGED tvars

BlackScholesImpliedVolCall ==
  /\ pc = "entry" /\ kind = "BlackScholes::impliedVol"
  /\ HandToBisection
  /\ UNCHANGED qvars

AbsoluteCEVImpliedVolCall ==
  /\ pc = "entry" /\ kind = "__AbsoluteCEVImpliedVol"
  /\ HandToBisection
  /\ UNCHANGED qvars

GeneralCEVImpliedVolCall ==
  /\ pc = "entry" /\ kind = "__GeneralCEVImpliedVol"
  /\ IF args.n < 1
     THEN /\ Throw
          /\ UNCHANGED <<kind, evals, firstCall, set_verbosity, func>>
          /\ UNCHANGED bvars
          /\ UNCHANGED fvars
          /\ UNCHANGED tvars
     ELSE HandToBisection
  /\ UNCHANGED qvars

\* the search regions drawn (the code defaults to [1e-6, 10])
VolBounds == {<<0, 4>>, <<1, 3>>}

MarketPrices == {1, 3, 5}

InitImpliedVol ==
  /\ InitCommon
  /\ IdleQuad
  /\ IdleTeam
  /\ IdleBisect
  /\ IdleTests
  /\ kind \in ImpliedVols
  /\ func = None
  /\ calls = <<kind>>
  /\ \E m \in Pricers, v \in MarketPrices, lu \in VolBounds, c \in 0..1 :
       args = [model |-> m, Vt |-> R(v), lowerBound |-> R(lu[1]),
               upperBound |-> R(lu[2]),
               n |-> IF kind = "__GeneralCEVImpliedVol" THEN c ELSE 1]

NextImpliedVol ==
  \/ BlackScholesImpliedVolCall
  \/ AbsoluteCEVImpliedVolCall
  \/ GeneralCEVImpliedVolCall
  \/ bisectionMethodCall
  \/ LoopStep
  \/ LoopExit

SpecImpliedVol == InitImpliedVol /\ [][NextImpliedVol]_vars

----------------------------------------------------------------------------
(* Claims about the implied volatility requests *)

\* the market price lies strictly between the prices at the two bounds
VtBracketed ==
  /\ RLt(price(args.model, args.lowerBound), args.Vt)
  /\ RLt(args.Vt, price(args.model, args.upperBound))

\* C11: an implied volatility request on a pricer that is strictly
\* increasing in the volatility, with price(lowerBound) < Vt <
\* price(upperBound), does not fail with a DomainError, and the volatility
\* it returns lies in [lowerBound, upperBound]
C11_ImpliedVolFound ==
  (args.model \in IncreasingPricers /\ VtBracketed /\ args.n >= 1) =>
    /\ pc # "error"
    /\ pc = "done" => /\ RLe(args.lowerBound, result)
                      /\ RLe(result, args.upperBound)

----------------------------------------------------------------------------
(* The special functions and the distribution functions are pure: a call  *)
(* is modelled by an operator that computes its outcome as the code does, *)
(* loop by loop.  An outcome is a record: err tells whether ERROR threw,  *)
(* val is the value returned, calls lists the functions of the library    *)
(* entered during the call, in order                                       *)

Ok(v, c) == [err |-> FALSE, val |-> v, calls |-> c]

Fail(c) == [err |-> TRUE, val |-> None, calls |-> c]

(* Floating point division by zero does not trap: x / 0 is an infinity    *)
(* for x # 0 and a NaN for x = 0.  <<1, 0>> and <<-1, 0>> stand for the    *)
(* infinities and <<0, 0>> for NaN (the sign of a zero is not modelled)    *)

Inf == <<1, 0>>
NaN == <<0, 0>>

IsFinite(x) == x[2] # 0

Sign(x) == IF x[1] > 0 THEN 1 ELSE IF x[1] < 0 THEN -1 ELSE 0

\* x / y on the floating point type T
FDiv(x, y) ==
  IF x = NaN \/ y = NaN THEN NaN
  ELSE IF ~IsFinite(y) THEN (IF IsFinite(x) THEN Zero ELSE NaN)
  ELSE IF ~IsFinite(x) THEN <<Sign(x) * (IF Sign(y) < 0 THEN -1 ELSE 1), 0>>
  ELSE IF y = Zero THEN <<Sign(x), 0>>
  ELSE RDiv(x, y)

\* x * y on the floating point type T
FMul(x, y) ==
  IF x = NaN \/ y = NaN THEN NaN
  ELSE IF ~IsFinite(x) \/ ~IsFinite(y) THEN <<Sign(x) * Sign(y), 0>>
  ELSE RMul(x, y)

\* x + y on the floating point type T
FAdd(x, y) ==
  IF x = NaN \/ y = NaN THEN NaN
  ELSE IF ~IsFinite(x) /\ ~IsFinite(y) THEN (IF x = y THEN x ELSE NaN)
  ELSE IF ~IsFinite(x) THEN x
  ELSE IF ~IsFinite(y) THEN y
  ELSE RAdd(x, y)

RECURSIVE pow(_, _)
\* std::pow(x, k) for an exponent that is a non-negative integer; pow(0, 0) = 1
pow(x, k) == IF k <= 0 THEN R(1) ELSE RMul(x, pow(x, k - 1))

\* std::exp.  The exponential is not rational: it is replaced by the rational
\* function 1 + x (x >= 0), 1 / (1 - x) (x < 0), which like exp is positive,
\* strictly increasing, 1 at 0 and satisfies exp(-x) = 1 / exp(x)
exp(x) ==
  IF RLe(Zero, x) THEN RAdd(R(1), x) ELSE RDiv(R(1), RSub(R(1), x))

RECURSIVE Factorial(_)
\* n! for n >= 0, the mathematical factorial
Factorial(m) == IF m <= 0 THEN 1 ELSE m * Factorial(m - 1)

\* std::tgamma at the arguments the model draws: Gamma(s) = (s - 1)! at the
\* positive integers, a pole elsewhere on the integers
tgamma(s) == IF s[2] = 1 /\ s[1] >= 1 THEN R(Factorial(s[1] - 1)) ELSE NaN

----------------------------------------------------------------------------
(* factorial.hpp, binomial.hpp, hypergeometric.hpp, instantiated at int   *)

MaxArg == 5        \* largest integer argument drawn
MaxTerms == 2      \* largest truncation point of a series drawn

RECURSIVE factorialLoop(_, _)
\* for (T i = n - 1; i > 0; i--) fact *= i;
factorialLoop(fact, i) ==
  IF i > 0 THEN factorialLoop(fact * i, i - 1) ELSE fact

factorial(m) ==
  IF m < 0 THEN Fail(<<"factorial">>)
  ELSE Ok(factorialLoop(m, m - 1), <<"factorial">>)

RECURSIVE doubleFactorialLoop(_, _)
\* for (T i = n - 2; i > 0; i -= 2) fact *= i;
doubleFactorialLoop(fact, i) ==
  IF i > 0 THEN doubleFactorialLoop(fact * i, i - 2) ELSE fact

doubleFactorial(m) ==
  IF m < 0 THEN Fail(<<"doubleFactorial">>)
  ELSE Ok(doubleFactorialLoop(m, m - 2), <<"doubleFactorial">>)

RECURSIVE binomialLoop(_, _, _, _)
\* for (T i = 1; i < (k < n - k ? k : n - k); i++) prod *= (n + 1 - i) / i;
\* the division is the integer division of T
binomialLoop(prod, i, m, k) ==
  IF i < (IF k < m - k THEN k ELSE m - k)
  THEN binomialLoop(prod * ((m + 1 - i) \div i), i + 1, m, k)
  ELSE prod

binomial(m, k) == Ok(binomialLoop(1, 1, m, k), <<"binomial">>)

\* pochhammer(z, a): the body names its second parameter a
pochhammer(z, k) ==
  IF k = Zero THEN Ok(R(1), <<"pochhammer">>)
  ELSE Ok(FDiv(tgamma(RAdd(z, k)), tgamma(z)), <<"pochhammer">>)

\* pow(z, (T)k) / (pochhammer(b, (T)k) * factorial(k))
hyp0F1Term(z, bb, k) ==
  FDiv(pow(z, k), FMul(pochhammer(bb, R(k)).val, R(factorial(k).val)))

RECURSIVE hyp0F1Loop(_, _, _, _, _)
\* for (int k = 0; k <= max_k; k++) sum += ...
hyp0F1Loop(sum, k, z, bb, max_k) ==
  IF k <= max_k
  THEN hyp0F1Loop(FAdd(sum, hyp0F1Term(z, bb, k)), k + 1, z, bb, max_k)
  ELSE sum

RECURSIVE hyp0F1Calls(_, _)
hyp0F1Calls(k, max_k) ==
  IF k <= max_k THEN <<"pochhammer", "factorial">> \o hyp0F1Calls(k + 1, max_k)
  ELSE <<>>

hyp0F1(z, bb, max_k) ==
  Ok(hyp0F1Loop(Zero, 0, z, bb, max_k), <<"hyp0F1">> \o hyp0F1Calls(0, max_k))

----------------------------------------------------------------------------
(* incompleteGamma.hpp.  The value simpson returns is the one its parallel *)
(* reduction yields under every schedule: the seed plus the weighted sum   *)
(* over the loop range, times the step                                     *)

\* a bounds check that lets an empty interval through
BoundsBadStrict(lo, hi) == RLt(hi, lo)

\* if ( a >= b ), the first check of simpson
BoundsBad(lo, hi) == RLe(hi, lo)

simpson(F(_), lo, hi, m) ==
  IF BoundsBad(lo, hi) THEN Fail(<<"simpson">>)
  ELSE IF m < 1 THEN Fail(<<"simpson">>)
  ELSE LET hh == RDiv(RSub(hi, lo), R(m))
           seed == RMul(<<1, 3>>, RAdd(F(lo), F(hi)))
           loop == SumOver(QuadLoopRange(m),
                     [i \in QuadLoopRange(m) |->
                        RMul(SimpsonWeight(i), F(RAdd(lo, RMul(R(i), hh))))])
       IN  Ok(RMul(hh, RAdd(seed, loop)), <<"simpson">>)

\* int n = 1000, the subdivision count the incomplete gamma functions default
\* to, scaled down to keep the arithmetic small
DefaultN == 3

\* [=](T t) { return pow(t, s - (T)1.) * exp(-t); } for an integer s >= 1
gammaIntegrand(s, t) == RMul(pow(t, s[1] - 1), exp(RSub(Zero, t)))

\* a count check that lets n = 0 through
CountBadNegative(m) == m < 0

\* if ( n < 1 ), the first check of both incomplete gamma functions
CountBad(m) == m < 1

\* if ( s < (T)1. ), their second check
ExponentBad(s) == RLt(s, R(1))

lowerIncompleteGamma(s, x, m) ==
  IF CountBad(m) THEN Fail(<<"lowerIncompleteGamma">>)
  ELSE IF ExponentBad(s) THEN Fail(<<"lowerIncompleteGamma">>)
  ELSE LET q == simpson(LAMBDA t : gammaIntegrand(s, t), Zero, x, m)
       IN  [q EXCEPT !.calls = <<"lowerIncompleteGamma">> \o @]

\* the lower function called with its default subdivision count
LowerOfDefault(s, x, m) == lowerIncompleteGamma(s, x, DefaultN)

\* lowerIncompleteGamma(s, x, n) in the return statement of the upper function
LowerOf(s, x, m) == lowerIncompleteGamma(s, x, m)

upperIncompleteGamma(s, x, m) ==
  IF CountBad(m) THEN Fail(<<"upperIncompleteGamma">>)
  ELSE IF ExponentBad(s) THEN Fail(<<"upperIncompleteGamma">>)
  ELSE LET l == LowerOf(s, x, m)
           c == <<"upperIncompleteGamma">> \o l.calls
       IN  IF l.err THEN Fail(c) ELSE Ok(RSub(tgamma(s), l.val), c)

----------------------------------------------------------------------------
(* normal.hpp, gamma.hpp, noncentralChiSquared.hpp *)

normal_moment(mean, std, p) ==
  IF p < 0 THEN Fail(<<"normal::moment">>)
  ELSE IF p % 2 = 0
  THEN LET d == doubleFactorial(p - 1)
           c == <<"normal::moment">> \o d.calls
       IN  IF d.err THEN Fail(c) ELSE Ok(RMul(pow(std, p), R(d.val)), c)
  ELSE Ok(Zero, <<"normal::moment">>)

gamma_moment(shape, rate, p) ==
  IF p < 0 THEN Fail(<<"gamma::moment">>)
  ELSE Ok(FDiv(FMul(FDiv(R(1), rate), tgamma(RAdd(shape, R(p)))), tgamma(shape)),
          <<"gamma::moment">>)

\* (T)1. / tgamma(shape) * special::lowerIncompleteGamma(shape, rate * x)
gamma_cdf(shape, rate, x) ==
  LET l == lowerIncompleteGamma(shape, RMul(rate, x), DefaultN)
      c == <<"gamma::cdf">> \o l.calls
  IN  IF l.err THEN Fail(c)
      ELSE Ok(FMul(FDiv(R(1), tgamma(shape)), l.val), c)

\* exp(lambda * p / (1 - 2 p)) / pow(1 - 2 p, k / 2), for an even k
noncentralChiSquared_moment(k, lambda, p) ==
  LET q == RSub(R(1), RMul(R(2), R(p)))
  IN  Ok(FDiv(exp(RDiv(RMul(lambda, R(p)), q)), pow(q, RDiv(k, R(2))[1])),
         <<"noncentralChiSquared::moment">>)

\* (pow(lambda / 2, j) / factorial(j)) * (l / tgamma(half_k + j))
cdfTerm(half_k, lambda, j, l) ==
  FMul(FDiv(pow(RDiv(lambda, R(2)), j), R(factorial(j).val)),
       FDiv(l, tgamma(RAdd(half_k, R(j)))))

RECURSIVE cdfLoop(_, _, _, _, _, _, _)
\* for (int j = 0; j <= max_j; j++) sum += ...; return exp(-lambda / 2) * sum;
cdfLoop(sum, j, half_x, half_k, lambda, max_j, c) ==
  IF j <= max_j
  THEN LET l == lowerIncompleteGamma(RAdd(half_k, R(j)), half_x, DefaultN)
           cc == c \o factorial(j).calls \o l.calls
       IN  IF l.err THEN Fail(cc)
           ELSE cdfLoop(FAdd(sum, cdfTerm(half_k, lambda, j, l.val)), j + 1,
                        half_x, half_k, lambda, max_j, cc)
  ELSE Ok(FMul(exp(RSub(Zero, RDiv(lambda, R(2)))), sum), c)

noncentralChiSquared_cdf(x, k, lambda, max_j) ==
  cdfLoop(Zero, 0, RDiv(x, R(2)), RDiv(k, R(2)), lambda, max_j,
          <<"noncentralChiSquared::cdf">>)

----------------------------------------------------------------------------
(* The calls of the special functions and of the distribution functions *)

\* the call returns the outcome o, or unwinds with its error
Finish(o) ==
  /\ calls' = o.calls
  /\ IF o.err THEN Throw
     ELSE result' = o.val /\ pc' = "done" /\ err' = err
  /\ UNCHANGED <<kind, evals, firstCall, set_verbosity, func, args>>
  /\ UNCHANGED qvars
  /\ UNCHANGED bvars
  /\ UNCHANGED tvars

factorialCall ==
  /\ pc = "entry" /\ kind = "factorial"
  /\ Finish(factorial(args.n))

doubleFactorialCall ==
  /\ pc = "entry" /\ kind = "doubleFactorial"
  /\ Finish(doubleFactorial(args.n))

binomialCall ==
  /\ pc = "entry" /\ kind = "binomial"
  /\ Finish(binomial(args.n, args.k))

hyp0F1Call ==
  /\ pc = "entry" /\ kind = "hyp0F1"
  /\ Finish(hyp0F1(args.z, args.b, args.max_k))

lowerIncompleteGammaCall ==
  /\ pc = "entry" /\ kind = "lowerIncompleteGamma"
  /\ Finish(lowerIncompleteGamma(args.s, args.x, args.n))

upperIncompleteGammaCall ==
  /\ pc = "entry" /\ kind = "upperIncompleteGamma"
  /\ Finish(upperIncompleteGamma(args.s, args.x, args.n))

normalMomentCall ==
  /\ pc = "entry" /\ kind = "normal::moment"
  /\ Finish(normal_moment(args.mean, args.std, args.p))

gammaMomentCall ==
  /\ pc = "entry" /\ kind = "gamma::moment"
  /\ Finish(gamma_moment(args.shape, args.rate, args.p))

gammaCdfCall ==
  /\ pc = "entry" /\ kind = "gamma::cdf"
  /\ Finish(gamma_cdf(args.shape, args.rate, args.x))

noncentralChiSquaredMomentCall ==
  /\ pc = "entry" /\ kind = "noncentralChiSquared::moment"
  /\ Finish(noncentralChiSquared_moment(args.k, args.lambda, args.p))

noncentralChiSquaredCdfCall ==
  /\ pc = "entry" /\ kind = "noncentralChiSquared::cdf"
  /\ Finish(noncentralChiSquared_cdf(args.x, args.k, args.lambda, args.max_j))

\* the exponential parameters drawn: 0, 1/2 and the first integers
Exponents == {Zero, <<1, 2>>, R(1), R(2), R(3)}

InitFun ==
  /\ InitCommon
  /\ IdleQuad
  /\ IdleTeam
  /\ IdleBisect
  /\ IdleTests
  /\ func = None
  /\ calls = <<>>
  /\ \/ /\ kind \in {"factorial", "doubleFactorial"}
        /\ \E m \in -2..MaxArg : args = [n |-> m]
     \/ /\ kind = "binomial"
        /\ \E m \in 0..MaxArg : \E k \in 0..m : args = [n |-> m, k |-> k]
     \/ /\ kind = "hyp0F1"
        /\ \E z \in 0..2, bb \in 1..3, m \in 0..MaxTerms :
             args = [z |-> R(z), b |-> R(bb), max_k |-> m]
     \/ /\ kind \in {"lowerIncompleteGamma", "upperIncompleteGamma"}
        /\ \E s \in Exponents, x \in -1..2, m \in -1..MaxN :
             args = [s |-> s, x |-> R(x), n |-> m]
     \/ /\ kind = "normal::moment"
        /\ \E sd \in 1..2, p \in -2..(MaxArg + 1) :
             args = [mean |-> Zero, std |-> R(sd), p |-> p]
     \/ /\ kind = "gamma::moment"
        /\ \E sh \in 1..2, rt \in 1..2, p \in -2..MaxArg :
             args = [shape |-> R(sh), rate |-> R(rt), p |-> p]
     \/ /\ kind = "gamma::cdf"
        /\ \E sh \in {<<1, 2>>, R(1), R(2)}, rt \in {-1, 1, 2}, x \in -1..2 :
             args = [shape |-> sh, rate |-> R(rt), x |-> R(x)]
     \/ /\ kind = "noncentralChiSquared::moment"
        /\ \E k \in {2, 4}, l \in {0, 2}, p \in -2..MaxArg :
             args = [k |-> R(k), lambda |-> R(l), p |-> p]
     \/ /\ kind = "noncentralChiSquared::cdf"
        /\ \E x \in {-2, 0, 2, 4}, k \in {1, 2, 4}, l \in {0, 2}, m \in 0..MaxTerms :
             args = [x |-> R(x), k |-> R(k), lambda |-> R(l), max_j |-> m]

NextFun ==
  \/ factorialCall
  \/ doubleFactorialCall
  \/ binomialCall
  \/ hyp0F1Call
  \/ lowerIncompleteGammaCall
  \/ upperIncompleteGammaCall
  \/ normalMomentCall
  \/ gammaMomentCall
  \/ gammaCdfCall
  \/ noncentralChiSquaredMomentCall
  \/ noncentralChiSquaredCdfCall

SpecFun == InitFun /\ [][NextFun]_vars

----------------------------------------------------------------------------
(* Claims about the special functions *)

Returned == pc # "entry"

Failed == pc = "error" /\ err = "DomainError" /\ result = None

\* C12: for every integer n >= 0, factorial(n) returns n! (1 for n = 0 and
\* for n = 1), and for every n < 0 it fails with a DomainError
C12_Factorial ==
  (kind = "factorial" /\ Returned) =>
    IF args.n < 0 THEN Failed
    ELSE pc = "done" /\ result = Factorial(args.n)

RECURSIVE DoubleFactorial(_)
\* n!!, the product of the positive integers of the parity of n up to n
DoubleFactorial(m) == IF m <= 0 THEN 1 ELSE m * DoubleFactorial(m - 2)

\* C13: for every integer n >= 0, doubleFactorial(n) returns the product of
\* the positive integers of the parity of n from n down to 1 or 2 (1 for
\* n = 0), and for every n < 0 it fails with a DomainError
C13_DoubleFactorial ==
  (kind = "doubleFactorial" /\ Returned) =>
    IF args.n < 0 THEN Failed
    ELSE pc = "done" /\ result = DoubleFactorial(args.n)

\* the binomial coefficient C(n, k)
Choose(m, k) == Factorial(m) \div (Factorial(k) * Factorial(m - k))

\* C14: for all integers 0 <= k <= n, binomial(n, k) returns the binomial
\* coefficient C(n, k); binomial(n, 1) = n and binomial(4, 2) = 6
C14_Binomial ==
  (kind = "binomial" /\ Returned /\ 0 <= args.k /\ args.k <= args.n) =>
    /\ pc = "done"
    /\ result = Choose(args.n, args.k)
    /\ args.k = 1 => result = args.n

RECURSIVE Rising(_, _)
\* (b)_k = b (b + 1) ... (b + k - 1), the rising factorial
Rising(bb, k) ==
  IF k <= 0 THEN R(1) ELSE RMul(Rising(bb, k - 1), RAdd(bb, R(k - 1)))

RECURSIVE Hyp0F1Series(_, _, _)
\* the sum of z^k / ((b)_k k!) over k = 0..m
Hyp0F1Series(z, bb, m) ==
  IF m < 0 THEN Zero
  ELSE RAdd(Hyp0F1Series(z, bb, m - 1),
            RDiv(pow(z, m), RMul(Rising(bb, m), R(Factorial(m)))))

\* C15: hyp0F1(z, b, maxTerms) returns, without an error, the finite sum of
\* the terms z^k / ((b)_k k!) for k = 0..maxTerms; no term divides by zero,
\* and hyp0F1(0, b, m) = 1
C15_Hyp0F1 ==
  (kind = "hyp0F1" /\ Returned) =>
    /\ pc = "done"
    /\ IsFinite(result)
    /\ result = Hyp0F1Series(args.z, args.b, args.max_k)
    /\ args.z = Zero => result = R(1)

\* C16: for s >= 1, x > 0 and n >= 1, upperIncompleteGamma(s, x, n) returns,
\* and its value added to the value of lowerIncompleteGamma(s, x, n) is
\* Gamma(s), whatever the quadrature yields for that n
C16_Complementarity ==
  (/\ kind = "upperIncompleteGamma" /\ Returned
   /\ RLe(R(1), args.s) /\ RLt(Zero, args.x) /\ args.n >= 1) =>
    /\ pc = "done"
    /\ ~lowerIncompleteGamma(args.s, args.x, args.n).err
    /\ RAdd(lowerIncompleteGamma(args.s, args.x, args.n).val, result)
         = tgamma(args.s)

\* an upper incomplete gamma value was returned for a quadrature whose loop
\* is not empty and whose value is not zero
C16_Witness ==
  /\ kind = "upperIncompleteGamma" /\ pc = "done"
  /\ args.n >= 3 /\ args.n # DefaultN /\ RLe(R(2), args.s)
  /\ result # tgamma(args.s)

----------------------------------------------------------------------------
(* Claims about the distribution functions *)

\* C18: for every p >= 0, normal::moment(mean, std, p) returns, without an
\* error, 0 when p is odd and std^p (p - 1)!! when p is even (1 for p = 0)
C18_NormalMoment ==
  (kind = "normal::moment" /\ Returned /\ args.p >= 0) =>
    /\ pc = "done"
    /\ result = IF args.p % 2 = 1 THEN Zero
                ELSE RMul(pow(args.std, args.p), R(DoubleFactorial(args.p - 1)))
    /\ args.p = 0 => result = R(1)

Moments == {"normal::moment", "gamma::moment", "noncentralChiSquared::moment"}

\* C19: every moment function called with p < 0 fails with a DomainError at
\* call entry and returns no value
C19_NegativeMomentFails ==
  (kind \in Moments /\ Returned /\ args.p < 0) => Failed /\ calls = <<kind>>

\* P(k/2 + j, x/2), the regularized lower incomplete gamma value of a term
RegularizedGamma(half_k, half_x, j) ==
  RDiv(lowerIncompleteGamma(RAdd(half_k, R(j)), half_x, DefaultN).val,
       tgamma(RAdd(half_k, R(j))))

RECURSIVE CdfSeries(_, _, _, _)
\* the sum of (lambda/2)^j / j! * P(k/2 + j, x/2) over j = 0..m
CdfSeries(x, k, lambda, m) ==
  IF m < 0 THEN Zero
  ELSE RAdd(CdfSeries(x, k, lambda, m - 1),
            RMul(RDiv(pow(RDiv(lambda, R(2)), m), R(Factorial(m))),
                 RegularizedGamma(RDiv(k, R(2)), RDiv(x, R(2)), m)))

\* C20: for lambda >= 0, noncentralChiSquared::cdf(x, k, lambda, m) is the
\* sum over j = 0..m of (lambda/2)^j / j! * P(k/2 + j, x/2) scaled by
\* exp(-lambda/2); it is finite, and the sum up to m + 1 is not smaller
C20_CdfSeries ==
  (/\ kind = "noncentralChiSquared::cdf" /\ Returned
   /\ RLe(Zero, args.lambda) /\ RLe(R(2), args.k) /\ RLt(Zero, args.x)) =>
    LET scale == exp(RSub(Zero, RDiv(args.lambda, R(2))))
        this == RMul(scale, CdfSeries(args.x, args.k, args.lambda, args.max_j))
        next == RMul(scale, CdfSeries(args.x, args.k, args.lambda, args.max_j + 1))
    IN  /\ pc = "done"
        /\ IsFinite(result)
        /\ result = this
        /\ RLe(result, next)

\* the call reaches lowerIncompleteGamma with s >= 1, n >= 1 and an upper
\* limit <= 0
NonPositiveLimit ==
  \/ /\ kind \in {"lowerIncompleteGamma", "upperIncompleteGamma"}
     /\ RLe(R(1), args.s) /\ args.n >= 1 /\ RLe(args.x, Zero)
  \/ /\ kind = "gamma::cdf"
     /\ RLe(R(1), args.shape) /\ RLe(RMul(args.rate, args.x), Zero)
  \/ /\ kind = "noncentralChiSquared::cdf"
     /\ RLe(R(2), args.k) /\ RLe(args.x, Zero)

\* C30: lowerIncompleteGamma with an upper limit x <= 0 (s >= 1, n >= 1)
\* fails with the DomainError of simpson and returns nothing, and so do
\* upperIncompleteGamma, gamma::cdf with rate * x <= 0 and
\* noncentralChiSquared::cdf with x <= 0: the last function entered is simpson
C30_NonPositiveLimitFails ==
  (NonPositiveLimit /\ Returned) =>
    /\ Failed
    /\ calls[1] = kind
    /\ calls[Len(calls)] = "simpson"
    /\ calls[Len(calls) - 1] = "lowerIncompleteGamma"

\* gamma::cdf at x = 0 has failed inside simpson
C30_Witness ==
  /\ kind = "gamma::cdf" /\ pc = "error" /\ args.x = Zero
  /\ RLe(R(1), args.shape)
  /\ calls = <<"gamma::cdf", "lowerIncompleteGamma", "simpson">>

----------------------------------------------------------------------------
(* differentiation.hpp: the finite differences of a callable.  The        *)
(* callable is a polynomial c0 + c1 x + c2 x^2 + c3 x^3 whose coefficients *)
(* the caller captured (args.coef)                                         *)

MaxOrder == 3      \* largest derivative order drawn

\* (func(x + h) - func(x)) / h
firstForwardDiff(x, hh) ==
  RDiv(RSub(Apply(func, RAdd(x, hh)), Apply(func, x)), hh)

\* (func(x) - func(x - h)) / h
firstBackwardDiff(x, hh) ==
  RDiv(RSub(Apply(func, x), Apply(func, RSub(x, hh))), hh)

\* a central stencil that steps a whole h to either side
CentralStepWhole(hh) == hh

\* h / (T)2., the step of the first central stencil to either side
CentralStep(hh) == RDiv(hh, R(2))

\* (func(x + h / 2) - func(x - h / 2)) / h
firstCentralDiff(x, hh) ==
  RDiv(RSub(Apply(func, RAdd(x, CentralStep(hh))),
            Apply(func, RSub(x, CentralStep(hh)))), hh)

\* (func(x + 2 h) - 2 func(x + h) + func(x)) / (h * h)
secondForwardDiff(x, hh) ==
  RDiv(RAdd(RSub(Apply(func, RAdd(x, RMul(R(2), hh))),
                 RMul(R(2), Apply(func, RAdd(x, hh)))),
            Apply(func, x)),
       RMul(hh, hh))

\* (func(x) + func(x - 2 h) - 2 func(x - h)) / (h * h)
secondBackwardDiff(x, hh) ==
  RDiv(RSub(RAdd(Apply(func, x), Apply(func, RSub(x, RMul(R(2), hh)))),
            RMul(R(2), Apply(func, RSub(x, hh)))),
       RMul(hh, hh))

\* (func(x + h) - 2 func(x) + func(x - h)) / (h * h)
secondCentralDiff(x, hh) ==
  RDiv(RAdd(RSub(Apply(func, RAdd(x, hh)), RMul(R(2), Apply(func, x))),
            Apply(func, RSub(x, hh))),
       RMul(hh, hh))

\* an order check that lets n = 0 through
OrderBadNegative(m) == m < 0

\* if ( n < 1 ), the check of the three nth order differences
OrderBad(m) == m < 1

NthDiffs == {"nthForwardDiff", "nthBackwardDiff", "nthCentralDiff"}

\* the sign of summand i: (n - i % 2 == 0) in the forward difference, which
\* C++ reads as (n - (i % 2)) == 0, and (i % 2 == 0) in the other two
nthSign(d, m, i) ==
  IF d = "nthForwardDiff"
  THEN (IF m - (i % 2) = 0 THEN R(1) ELSE R(-1))
  ELSE (IF i % 2 = 0 THEN R(1) ELSE R(-1))

\* the sample point of summand i
nthPoint(d, m, i, x, hh) ==
  CASE d = "nthForwardDiff"  -> RAdd(x, RMul(R(i), hh))
    [] d = "nthBackwardDiff" -> RSub(x, RMul(R(i), hh))
    [] d = "nthCentralDiff"  -> RAdd(x, RMul(RSub(RDiv(R(m), R(2)), R(i)), hh))

RECURSIVE nthLoop(_, _, _, _, _, _)
\* for (int i = 0; i <= n; i++) sum += sign * (T)binomial<int>(n, i) * func(...)
nthLoop(d, sum, i, m, x, hh) ==
  IF i <= m
  THEN nthLoop(d,
               RAdd(sum, RMul(RMul(nthSign(d, m, i), R(binomial(m, i).val)),
                              Apply(func, nthPoint(d, m, i, x, hh)))),
               i + 1, m, x, hh)
  ELSE sum

\* T sum = 0; the loop; return sum
nthDiff(d, m, x, hh) == nthLoop(d, Zero, 0, m, x, hh)

\* the call returns v after evaluating func at the points pts
DiffReturn(v, pts, c) ==
  /\ result' = v
  /\ pc' = "done"
  /\ evals' = pts
  /\ calls' = c
  /\ UNCHANGED <<kind, err, func, args>>
  /\ UNCHANGED qvars
  /\ UNCHANGED bvars
  /\ UNCHANGED tvars

firstForwardDiffCall ==
  /\ pc = "entry" /\ kind = "firstForwardDiff"
  /\ DiffReturn(firstForwardDiff(args.x, args.h),
                {RAdd(args.x, args.h), args.x}, <<kind>>)
  /\ UNCHANGED <<firstCall, set_verbosity>>

firstBackwardDiffCall ==
  /\ pc = "entry" /\ kind = "firstBackwardDiff"
  /\ DiffReturn(firstBackwardDiff(args.x, args.h),
                {args.x, RSub(args.x, args.h)}, <<kind>>)
  /\ UNCHANGED <<firstCall, set_verbosity>>

firstCentralDiffCall ==
  /\ pc = "entry" /\ kind = "firstCentralDiff"
  \* DEBUG(func(x + h / 2), " ", func(x - h / 2)) asks verbosity() for the level
  /\ firstCall' = verbosity(BASE_VERBOSITY)[1]
  /\ set_verbosity' = verbosity(BASE_VERBOSITY)[2]
  /\ DiffReturn(firstCentralDiff(args.x, args.h),
                {RAdd(args.x, CentralStep(args.h)),
                 RSub(args.x, CentralStep(args.h))}, <<kind>>)

secondForwardDiffCall ==
  /\ pc = "entry" /\ kind = "secondForwardDiff"
  /\ DiffReturn(secondForwardDiff(args.x, args.h),
                {RAdd(args.x, RMul(R(2), args.h)), RAdd(args.x, args.h), args.x},
                <<kind>>)
  /\ UNCHANGED <<firstCall, set_verbosity>>

secondBackwardDiffCall ==
  /\ pc = "entry" /\ kind = "secondBackwardDiff"
  /\ DiffReturn(secondBackwardDiff(args.x, args.h),
                {args.x, RSub(args.x, RMul(R(2), args.h)), RSub(args.x, args.h)},
                <<kind>>)
  /\ UNCHANGED <<firstCall, set_verbosity>>

secondCentralDiffCall ==
  /\ pc = "entry" /\ kind = "secondCentralDiff"
  /\ DiffReturn(secondCentralDiff(args.x, args.h),
                {RAdd(args.x, args.h), args.x, RSub(args.x, args.h)}, <<kind>>)
  /\ UNCHANGED <<firstCall, set_verbosity>>

\* one of nthForwardDiff, nthBackwardDiff, nthCentralDiff
nthDiffCall(d) ==
  /\ pc = "entry" /\ kind = d
  /\ IF OrderBad(args.n)
     THEN /\ Throw
          /\ calls' = <<kind>>
          /\ UNCHANGED <<kind, evals, func, args>>
          /\ UNCHANGED qvars
          /\ UNCHANGED bvars
          /\ UNCHANGED tvars
     ELSE DiffReturn(nthDiff(d, args.n, args.x, args.h),
                     {nthPoint(d, args.n, i, args.x, args.h) : i \in 0..args.n},
                     <<kind>> \o [i \in 1..(args.n + 1) |-> "binomial"])
  /\ UNCHANGED <<firstCall, set_verbosity>>

nthForwardDiffCall == nthDiffCall("nthForwardDiff")

nthBackwardDiffCall == nthDiffCall("nthBackwardDiff")

nthCentralDiffCall == nthDiffCall("nthCentralDiff")

FirstDiffs == {"firstForwardDiff", "firstBackwardDiff", "firstCentralDiff"}

SecondDiffs == {"secondForwardDiff", "secondBackwardDiff", "secondCentralDiff"}

\* the coefficients <<c0, c1, c2, c3>> drawn
Coefficients == {<<c0, c1, c2, c3>> : c0 \in {0, 2}, c1 \in {0, 1},
                                       c2 \in {-1, 0, 2}, c3 \in {0, 1}}

\* the points and the steps drawn (the step defaults to 1e-6 and is not 0)
DiffPoints == {Zero, R(1), <<3, 2>>}
DiffSteps == {R(1), <<1, 2>>, R(-2)}

InitDiff ==
  /\ InitCommon
  /\ IdleQuad
  /\ IdleTeam
  /\ IdleBisect
  /\ IdleTests
  /\ func = "polynomial"
  /\ calls = <<>>
  /\ kind \in FirstDiffs \cup SecondDiffs \cup NthDiffs
  /\ \E c \in Coefficients, x \in DiffPoints, hh \in DiffSteps, m \in -1..MaxOrder :
       args = [coef |-> c, x |-> x, h |-> hh,
               n |-> IF kind \in NthDiffs THEN m
                     ELSE IF kind \in FirstDiffs THEN 1 ELSE 2]

NextDiff ==
  \/ firstForwardDiffCall
  \/ firstBackwardDiffCall
  \/ firstCentralDiffCall
  \/ secondForwardDiffCall
  \/ secondBackwardDiffCall
  \/ secondCentralDiffCall
  \/ nthForwardDiffCall
  \/ nthBackwardDiffCall
  \/ nthCentralDiffCall

SpecDiff == InitDiff /\ [][NextDiff]_vars

----------------------------------------------------------------------------
(* Claims about the finite differences *)

RECURSIVE DiffQuotientSum(_, _, _, _, _)
\* the sum over i = 0..j of the signed terms C(n, i) f(sample_i): forward
\* (-1)^(n-i) f(x + i h), backward (-1)^i f(x - i h), central
\* (-1)^i f(x + (n/2 - i) h)
DiffQuotientSum(d, j, m, x, hh) ==
  IF j < 0 THEN Zero
  ELSE LET sgn == IF d = "nthForwardDiff"
                  THEN (IF (m - j) % 2 = 0 THEN R(1) ELSE R(-1))
                  ELSE (IF j % 2 = 0 THEN R(1) ELSE R(-1))
       IN  RAdd(DiffQuotientSum(d, j - 1, m, x, hh),
                RMul(RMul(sgn, R(Choose(m, j))),
                     Apply(func, nthPoint(d, m, j, x, hh))))

\* the n-th finite difference quotient
DiffQuotient(d, m, x, hh) ==
  RDiv(DiffQuotientSum(d, m, m, x, hh), pow(hh, m))

\* C21: for n >= 1 the nth order differences return the n-th finite
\* difference quotient (the alternating sum of C(n, i) f(sample_i) divided by
\* h^n); for n = 1 and n = 2 that is the first and second order stencil of
\* the same direction, and for a polynomial of degree n the central variant
\* returns n! times the leading coefficient
C21_NthDifference ==
  (kind \in NthDiffs /\ Returned /\ args.n >= 1) =>
    /\ pc = "done"
    /\ result = DiffQuotient(kind, args.n, args.x, args.h)
    /\ (kind = "nthForwardDiff" /\ args.n = 1) =>
         result = firstForwardDiff(args.x, args.h)
    /\ (kind = "nthBackwardDiff" /\ args.n = 2) =>
         result = secondBackwardDiff(args.x, args.h)
    /\ (kind = "nthCentralDiff" /\ args.n = 3 /\ args.coef[4] # 0) =>
         result = R(Factorial(3) * args.coef[4])

\* f'(x) = 2 a x + b for the quadratic a x^2 + b x + c the call captured
QuadraticDerivative == RAdd(RMul(R(2 * args.coef[3]), args.x), R(args.coef[2]))

\* C22: for a quadratic a x^2 + b x + c and h # 0, firstCentralDiff returns
\* exactly f'(x) = 2 a x + b, firstForwardDiff f'(x) + a h, firstBackwardDiff
\* f'(x) - a h; all three are within |a h| of f'(x)
C22_FirstOrderStencils ==
  (kind \in FirstDiffs /\ Returned /\ args.coef[4] = 0) =>
    LET ah == RMul(R(args.coef[3]), args.h)
    IN  /\ pc = "done"
        /\ kind = "firstCentralDiff" => result = QuadraticDerivative
        /\ kind = "firstForwardDiff" => result = RAdd(QuadraticDerivative, ah)
        /\ kind = "firstBackwardDiff" => result = RSub(QuadraticDerivative, ah)
        /\ RLe(RAbs(RSub(result, QuadraticDerivative)), RAbs(ah))

\* the central stencil has returned for a proper quadratic with a non-zero
\* derivative and a step other than 1
C22_Witness ==
  /\ kind = "firstCentralDiff" /\ pc = "done"
  /\ args.coef[3] # 0 /\ args.coef[4] = 0
  /\ args.h = <<1, 2>> /\ QuadraticDerivative # Zero

\* C23: the nth order differences fail with a DomainError whenever n < 1,
\* before func is evaluated at any sample point
C23_OrderDomainError ==
  (kind \in NthDiffs /\ Returned /\ args.n < 1) => Failed /\ evals = {}

\* an nth order difference of order 0 has failed
C23_Witness == kind = "nthCentralDiff" /\ pc = "error" /\ args.n = 0

\* C24: a successful call of a numeric function leaves every process-wide
\* variable as it was, the logger's firstCall and set_verbosity included
C24_NoGlobalState ==
  [][(pc = "entry" /\ pc' = "done") =>
       (firstCall' = firstCall /\ set_verbosity' = set_verbosity)]_vars

----------------------------------------------------------------------------
(* testing.hpp: TestSuite.  A registered test is modelled by what a call  *)
(* of it does: it returns true ("pass"), returns false ("fail") or throws *)
(* a std::exception ("throw")                                              *)

MaxTests == 3      \* largest number of tests registered

TestOutcomes == {"pass", "fail", "throw"}

\* int numTests(): testStructs.size()
numTests == Len(testStructs)

\* bool addTest(function, submodule, testname): push_back, return true
addTest(t) ==
  /\ pc = "entry" /\ kind = "runTests"
  /\ numTests < MaxTests
  /\ testStructs' = Append(testStructs, t)
  /\ result' = TRUE
  /\ UNCHANGED <<kind, pc, err, evals, firstCall, set_verbosity, func>>
  /\ UNCHANGED <<idx, countPassed, ran>>
  /\ UNCHANGED qvars
  /\ UNCHANGED bvars
  /\ UNCHANGED fvars

\* runTests up to the loop: INFO asks verbosity() for the level; an empty
\* suite returns true at once
runTestsCall ==
  /\ pc = "entry" /\ kind = "runTests"
  /\ firstCall' = verbosity(BASE_VERBOSITY)[1]
  /\ set_verbosity' = verbosity(BASE_VERBOSITY)[2]
  /\ calls' = Append(calls, "runTests")
  /\ IF numTests = 0
     THEN /\ result' = TRUE
          /\ pc' = "done"
          /\ UNCHANGED <<idx, countPassed>>
     ELSE /\ countPassed' = 0
          /\ idx' = 0
          /\ pc' = "loop"
          /\ result' = None
  /\ UNCHANGED <<kind, err, evals, func, args, testStructs, ran>>
  /\ UNCHANGED qvars
  /\ UNCHANGED bvars

\* a catch block that gives up on the remaining tests
CatchBreak(i) == numTests

\* catch (std::exception& e) { INFO(...); continue; }: on to the next index
CatchContinue(i) == i + 1

\* one iteration of for (int i = 0; i < this->numTests(); i++)
runTest ==
  /\ pc = "loop" /\ kind = "runTests"
  /\ idx < numTests
  /\ ran' = Append(ran, idx + 1)
  /\ CASE testStructs[idx + 1] = "throw" ->
            /\ idx' = CatchContinue(idx)
            /\ UNCHANGED countPassed
       [] testStructs[idx + 1] = "pass" ->
            /\ countPassed' = countPassed + 1
            /\ idx' = idx + 1
       [] testStructs[idx + 1] = "fail" ->
            /\ idx' = idx + 1
            /\ UNCHANGED countPassed
  /\ UNCHANGED <<cvars, testStructs>>
  /\ UNCHANGED qvars
  /\ UNCHANGED bvars
  /\ UNCHANGED fvars

\* return ( countPassed == this->numTests() )
runTestsReturn ==
  /\ pc = "loop" /\ kind = "runTests"
  /\ ~(idx < numTests)
  /\ result' = (countPassed = numTests)
  /\ pc' = "done"
  /\ UNCHANGED <<kind, err, evals, firstCall, set_verbosity, func>>
  /\ UNCHANGED tvars
  /\ UNCHANGED qvars
  /\ UNCHANGED bvars
  /\ UNCHANGED fvars

InitTests ==
  /\ InitCommon
  /\ IdleQuad
  /\ IdleTeam
  /\ IdleBisect
  /\ IdleCall
  /\ IdleTests
  /\ kind = "runTests"
  /\ func = None

NextTests ==
  \/ \E t \in TestOutcomes : addTest(t)
  \/ runTestsCall
  \/ runTest
  \/ runTestsReturn

SpecTests == InitTests /\ [][NextTests]_vars

\* C25: runTests returns true iff every registered test returned true
\* without throwing (true for an empty suite); a test that fails or throws
\* does not keep the later tests from running: every test has run exactly
\* once, in registration order
C25_RunTests ==
  (kind = "runTests" /\ pc = "done") =>
    /\ result = (\A k \in 1..numTests : testStructs[k] = "pass")
    /\ ran = [k \in 1..numTests |-> k]

\* a suite whose first test throws and whose second fails has run to its end
C25_Witness ==
  /\ kind = "runTests" /\ pc = "done" /\ numTests = MaxTests
  /\ testStructs[1] = "throw" /\ testStructs[2] = "fail"
  /\ testStructs[numTests] = "pass" /\ result = FALSE

----------------------------------------------------------------------------
(* logging.hpp: the calls of verbosity() a program makes, explicitly or    *)
(* through the message macros                                              *)

MaxCalls == 3      \* largest number of logging calls of a behaviour

\* the message macros
Messages == {"WARNING", "INFO", "LOWPRIORITY", "DEBUG"}

\* int verbosity(int _verbosity): returns set_verbosity
verbosityCall(v) ==
  /\ kind = "logging" /\ Len(calls) < MaxCalls
  /\ firstCall' = verbosity(v)[1]
  /\ set_verbosity' = verbosity(v)[2]
  /\ result' = verbosity(v)[2]
  /\ args' = [v |-> v]
  /\ calls' = Append(calls, "verbosity")
  /\ UNCHANGED <<kind, pc, err, evals, func>>
  /\ UNCHANGED qvars
  /\ UNCHANGED bvars
  /\ UNCHANGED tvars

\* _warningMsg, _infoMsg, _lowPriorityMsg, _debugMsg: each asks verbosity()
\* for the level and prints if it exceeds its threshold (the output stream is
\* not part of the state)
messageCall(m) ==
  /\ kind = "logging" /\ Len(calls) < MaxCalls
  /\ firstCall' = verbosity(BASE_VERBOSITY)[1]
  /\ set_verbosity' = verbosity(BASE_VERBOSITY)[2]
  /\ args' = [v |-> BASE_VERBOSITY]
  /\ calls' = Append(calls, m)
  /\ UNCHANGED <<kind, pc, result, err, evals, func>>
  /\ UNCHANGED qvars
  /\ UNCHANGED bvars
  /\ UNCHANGED tvars

InitLog ==
  /\ InitCommon
  /\ IdleQuad
  /\ IdleTeam
  /\ IdleBisect
  /\ IdleCall
  /\ IdleTests
  /\ kind = "logging"
  /\ func = None

NextLog ==
  \/ \E v \in -1..6 : verbosityCall(v)
  \/ \E m \in Messages : messageCall(m)

SpecLog == InitLog /\ [][NextLog]_vars

----------------------------------------------------------------------------
(* sutils.hpp, utils.hpp: split, numTokens, ceil.  A string is a sequence *)
(* of characters                                                           *)

MaxLen == 4        \* longest string drawn
MaxNum == 5        \* largest absolute value of a numerator drawn

Chars == {"a", "b", ","}

Delims == {",", "b"}

\* the position of the first delim at or after pos, Len(str) + 1 if none
NextDelim(str, pos, delim) ==
  IF \E q \in pos..Len(str) : str[q] = delim
  THEN CHOOSE q \in pos..Len(str) :
         str[q] = delim /\ \A r \in pos..(q - 1) : str[r] # delim
  ELSE Len(str) + 1

\* std::getline(stream, token, delim) with the stream at position pos: it
\* fails if the stream is at its end, else it extracts the characters up to
\* the next delim (or the end) and discards that delim
getline(str, pos, delim) ==
  IF pos > Len(str) THEN [ok |-> FALSE, token |-> <<>>, pos |-> pos]
  ELSE LET q == NextDelim(str, pos, delim)
       IN  [ok |-> TRUE, token |-> SubSeq(str, pos, q - 1), pos |-> q + 1]

\* a test that keeps the empty tokens too
TokenKeptAlways(token) == TRUE

\* if (token != "")
TokenKept(token) == token # <<>>

RECURSIVE splitLoop(_, _, _, _)
\* while (std::getline(stream, token, delim)) if (token != "") ret.push_back(token);
splitLoop(str, pos, delim, ret) ==
  LET g == getline(str, pos, delim)
  IN  IF g.ok
      THEN splitLoop(str, g.pos, delim,
                     IF TokenKept(g.token) THEN Append(ret, g.token) ELSE ret)
      ELSE ret

split(str, delim) == Ok(splitLoop(str, 1, delim, <<>>), <<"split">>)

RECURSIVE numTokensLoop(_, _, _, _)
\* while (std::getline(stream, token, delim)) if (token != "") count++;
numTokensLoop(str, pos, delim, count) ==
  LET g == getline(str, pos, delim)
  IN  IF g.ok
      THEN numTokensLoop(str, g.pos, delim,
                         IF TokenKept(g.token) THEN count + 1 ELSE count)
      ELSE count

numTokens(str, delim) == Ok(numTokensLoop(str, 1, delim, 0), <<"numTokens">>)

\* x / y on int: the quotient truncated towards zero
IntDiv(x, y) ==
  IF (x < 0) = (y < 0) THEN IAbs(x) \div IAbs(y) ELSE -(IAbs(x) \div IAbs(y))

\* return (numerator + denominator - 1) / denominator;
ceil(numerator, denominator) ==
  Ok(IntDiv(numerator + denominator - 1, denominator), <<"ceil">>)

splitCall ==
  /\ pc = "entry" /\ kind = "split"
  /\ Finish(split(args.str, args.delim))

numTokensCall ==
  /\ pc = "entry" /\ kind = "numTokens"
  /\ Finish(numTokens(args.str, args.delim))

ceilCall ==
  /\ pc = "entry" /\ kind = "ceil"
  /\ Finish(ceil(args.numerator, args.denominator))

\* the strings of at most MaxLen characters
Strings == UNION {[1..l -> Chars] : l \in 0..MaxLen}

InitUtil ==
  /\ InitCommon
  /\ IdleQuad
  /\ IdleTeam
  /\ IdleBisect
  /\ IdleTests
  /\ func = None
  /\ calls = <<>>
  /\ \/ /\ kind \in {"split", "numTokens"}
        /\ \E str \in Strings, delim \in Delims :
             args = [str |-> str, delim |-> delim]
     \/ /\ kind = "ceil"
        /\ \E x \in -MaxNum..MaxNum, y \in (-3..3) \ {0} :
             args = [numerator |-> x, denominator |-> y]

NextUtil ==
  \/ splitCall
  \/ numTokensCall
  \/ ceilCall

SpecUtil == InitUtil /\ [][NextUtil]_vars

----------------------------------------------------------------------------
(* Claims about the utilities *)

\* the positions at which a maximal delimiter-free substring of str starts
TokenStarts(str, delim) ==
  {p \in 1..Len(str) : str[p] # delim /\ (p = 1 \/ str[p - 1] = delim)}

\* the maximal non-empty substrings of str without delim, from left to right
MaximalTokens(str, delim) ==
  LET S == TokenStarts(str, delim)
      nth(k) == CHOOSE p \in S : Cardinality({r \in S : r < p}) = k - 1
      last(p) == CHOOSE e \in p..Len(str) :
                   /\ \A r \in p..e : str[r] # delim
                   /\ (e = Len(str) \/ str[e + 1] = delim)
  IN  [k \in 1..Cardinality(S) |-> SubSeq(str, nth(k), last(nth(k)))]

\* C27: split(s, d) returns, from left to right, exactly the maximal
\* non-empty substrings of s that contain no d: no token is empty or
\* contains d; numTokens(s, d) is the number of those tokens
C27_SplitTokens ==
  /\ (kind = "split" /\ Returned) =>
       /\ pc = "done"
       /\ result = MaximalTokens(args.str, args.delim)
       /\ \A k \in 1..Len(result) :
            /\ result[k] # <<>>
            /\ \A r \in 1..Len(result[k]) : result[k][r] # args.delim
  /\ (kind = "numTokens" /\ Returned) =>
       /\ pc = "done"
       /\ result = Len(MaximalTokens(args.str, args.delim))
       /\ result = Len(split(args.str, args.delim).val)

\* a string with a leading, a repeated and a trailing delimiter was split in
\* two tokens
C27_Witness ==
  /\ kind = "split" /\ pc = "done"
  /\ args.str = <<",", "a", ",", ",">> /\ args.delim = ","
  /\ result = <<<<"a">>>>

\* C28: for denominator # 0, ceil(numerator, denominator) is the smallest
\* integer q with q >= numerator / denominator
C28_Ceil ==
  (kind = "ceil" /\ Returned) =>
    /\ pc = "done"
    /\ RLe(Norm(args.numerator, args.denominator), R(result))
    /\ RLt(R(result - 1), Norm(args.numerator, args.denominator))

====
